---- MODULE Spec2Model ----
(***************************************************************************)
(* Model of the insights API (app/api/routes.py and the services it uses). *)
(*                                                                         *)
(* Two specifications live here:                                           *)
(*   Spec       the /generate-insights handler, run by concurrent          *)
(*              requests against one shared Qdrant collection;             *)
(*   SpecSplit  split_into_token_chunks applied to bounded texts.          *)
(*                                                                         *)
(* Python None is the empty tuple and a present optional value a 1-tuple.  *)
(***************************************************************************)
EXTENDS Integers, Sequences, FiniteSets, TLC

None == <<>>
Some(x) == <<x>>

Min(a, b) == IF a <= b THEN a ELSE b

(***************************************************************************)
(* Bounds of the model.                                                    *)
(***************************************************************************)
\* longest text, in characters, given to split_into_token_chunks
MaxTextLen == 4
\* chunk_size ranges over -MaxChunkSize .. MaxChunkSize
MaxChunkSize == 3
\* most points in the collection that get_points_by_file_id pages through
MaxScrollPoints == 305

(***************************************************************************)
(* Configuration, app/config/settings.py.                                  *)
(***************************************************************************)
MAX_TOKENS_BEFORE_SUMMARIZATION == 120000
CHUNK_SIZE_FOR_SUMMARIZATION == 50000
MEGA_SUMMARY_TARGET == 5000
INSIGHTS_MAX_TOKENS == 2000
\* create_mega_summary asks for target_tokens + 500 output tokens
MEGA_SUMMARY_HEADROOM == 500
\* page size of get_points_by_file_id
SCROLL_LIMIT == 100

(***************************************************************************)
(* Python's range(start, stop, step), as the sequence it iterates over.    *)
(* A step of 0 raises ValueError: callers test RangeRaises first.          *)
(***************************************************************************)
RangeRaises(step) == step = 0

RECURSIVE range(_, _, _)
range(start, stop, step) ==
    IF step > 0
    THEN IF start >= stop THEN <<>>
         ELSE <<start>> \o range(start + step, stop, step)
    ELSE IF start <= stop THEN <<>>
         ELSE <<start>> \o range(start + step, stop, step)

(***************************************************************************)
(* Python's s[lo:hi] for 0 <= lo <= hi, as the 0-based bounds [lo, hi)     *)
(* clipped to the length of s.                                             *)
(***************************************************************************)
SliceBounds(lo, hi, length) == <<Min(lo, length), Min(hi, length)>>

Slice(s, lo, hi) ==
    LET b == SliceBounds(lo, hi, Len(s)) IN SubSeq(s, b[1] + 1, b[2])

(***************************************************************************)
(* The tokenizer (tiktoken cl100k_base) is a byte-pair encoder outside the *)
(* repository.  It is modelled over the alphabet {a, b} with one merge:    *)
(* "ab" is a single token.  encode is greedy from the left, decode joins   *)
(* the tokens' characters.  A text is a sequence of characters and a token *)
(* is the sequence of characters it stands for.                            *)
(***************************************************************************)
Alphabet == {"a", "b"}

RECURSIVE encode(_)
encode(text) ==
    IF text = <<>> THEN <<>>
    ELSE IF Len(text) >= 2 /\ text[1] = "a" /\ text[2] = "b"
         THEN << <<"a", "b">> >> \o encode(SubSeq(text, 3, Len(text)))
         ELSE << <<text[1]>> >> \o encode(Tail(text))

RECURSIVE decode(_)
decode(tokens) ==
    IF tokens = <<>> THEN <<>> ELSE Head(tokens) \o decode(Tail(tokens))

count_tokens(text) == Len(encode(text))

(***************************************************************************)
(* State.                                                                  *)
(*   split        the locals of one call of split_into_token_chunks       *)
(*   paging       the locals of one call of get_points_by_file_id          *)
(*   store        the Qdrant collection: its points in scroll order        *)
(*   request      the body of each request                                 *)
(*   pc           where each request's handler stands                      *)
(*   frame        the handler's locals, by request                         *)
(*   gateway      the calls each request has sent to the LLM and the       *)
(*                embedding service, in order, with their outcome          *)
(*   scrolls      the filters of the store reads each request has made     *)
(*   response     what each request has returned                           *)
(***************************************************************************)
VARIABLES split, paging, store, request, pc, frame, gateway, scrolls, response

vars == <<split, paging, store, request, pc, frame, gateway, scrolls, response>>
pipeline == <<paging, store, request, pc, frame, gateway, scrolls, response>>

(***************************************************************************)
(* split_into_token_chunks(text, chunk_size), one loop iteration a step.   *)
(* chunk_tokens keeps every window the loop has cut, in order.             *)
(***************************************************************************)
RECURSIVE SeqsUpTo(_, _)
SeqsUpTo(S, n) ==
    IF n = 0 THEN {<<>>}
    ELSE LET shorter == SeqsUpTo(S, n - 1)
         IN  shorter \cup {Append(s, c) : s \in {t \in shorter : Len(t) = n - 1}, c \in S}

Texts == SeqsUpTo(Alphabet, MaxTextLen)
ChunkSizes == (0 - MaxChunkSize) .. MaxChunkSize

SplitIdle ==
    [pc |-> "idle", text |-> <<>>, chunk_size |-> 1, tokens |-> <<>>,
     pending |-> <<>>, chunk_tokens |-> <<>>, chunks |-> <<>>]

SplitCall(text, chunk_size) ==
    [pc |-> "call", text |-> text, chunk_size |-> chunk_size, tokens |-> <<>>,
     pending |-> <<>>, chunk_tokens |-> <<>>, chunks |-> <<>>]

\* mutant: the loop runs one position past the last token
LoopRange_past(total_tokens, chunk_size) == range(0, total_tokens + 1, chunk_size)

\* tokens = tokenizer.encode(text); for i in range(0, total_tokens, chunk_size)
LoopRange(total_tokens, chunk_size) == range(0, total_tokens, chunk_size)

\* mutant: the window one token short
ChunkTokens_short(tokens, i, chunk_size) == Slice(tokens, i, i + chunk_size - 1)

\* chunk_tokens = tokens[i:i + chunk_size]
ChunkTokens(tokens, i, chunk_size) == Slice(tokens, i, i + chunk_size)

SplitEncode ==
    /\ split.pc = "call"
    /\ ~RangeRaises(split.chunk_size)
    /\ split' = [split EXCEPT !.pc = "loop",
                              !.tokens = encode(split.text),
                              !.pending = LoopRange(Len(encode(split.text)), split.chunk_size)]
    /\ UNCHANGED pipeline

\* range() raises ValueError on a step of 0: the call ends without a result
SplitRaise ==
    /\ split.pc = "call"
    /\ RangeRaises(split.chunk_size)
    /\ split' = [split EXCEPT !.pc = "raised", !.tokens = encode(split.text)]
    /\ UNCHANGED pipeline

SplitLoop ==
    /\ split.pc = "loop"
    /\ split.pending # <<>>
    /\ LET i == Head(split.pending)
           chunk_tokens == ChunkTokens(split.tokens, i, split.chunk_size)
       IN  split' = [split EXCEPT !.pending = Tail(split.pending),
                                  !.chunk_tokens = Append(@, chunk_tokens),
                                  !.chunks = Append(@, decode(chunk_tokens))]
    /\ UNCHANGED pipeline

SplitReturn ==
    /\ split.pc = "loop"
    /\ split.pending = <<>>
    /\ split' = [split EXCEPT !.pc = "returned"]
    /\ UNCHANGED pipeline

(***************************************************************************)
(* Request inputs.  A case_type is a sequence of characters, so that       *)
(* strip() is computed; the other request fields are atoms.                *)
(***************************************************************************)
Requests == {"r1", "r2"}

FileIds == {"f1", "f2"}
CaseIds == {"c1"}
CaseTypeInputs == {<<>>, <<" ">>, <<"T">>, <<" ", "G">>}
DataSourceInputs == {"audio", "video", "pdf"}

\* class DataSource(str, Enum)
DataSource == {"audio", "video", "image", "ufed_extraction", "others"}

\* str.strip(): drops leading and trailing whitespace
RECURSIVE lstrip(_)
lstrip(s) == IF s # <<>> /\ Head(s) = " " THEN lstrip(Tail(s)) ELSE s

RECURSIVE rstrip(_)
rstrip(s) ==
    IF s # <<>> /\ s[Len(s)] = " " THEN rstrip(SubSeq(s, 1, Len(s) - 1)) ELSE s

strip(s) == rstrip(lstrip(s))

InsightsRequest ==
    [case_id : CaseIds, file_id : FileIds,
     case_type : CaseTypeInputs, data_source : DataSourceInputs]

(***************************************************************************)
(* Texts of the pipeline.  The configured thresholds are in the hundreds   *)
(* of thousands of tokens, so a source text is kept as the names of the    *)
(* stored fragments it is made of, in order, and the number of tokens it   *)
(* encodes to; a chunk is a token window [lo, hi) of such a text; what a   *)
(* model returns is named after the gateway call that produced it.         *)
(***************************************************************************)
SourceText(name, tokens) == [kind |-> "source", parts |-> <<name>>, tokens |-> tokens]
EmptyText == [kind |-> "source", parts |-> <<>>, tokens |-> 0]
ChunkText(text, window) ==
    [kind |-> "chunk", parts |-> text.parts, lo |-> window[1], hi |-> window[2]]
GeneratedText(r, n) == [kind |-> "generated", by |-> <<r, n>>]

\* truth value of a str: the empty string is false
Truthy(text) == text.kind # "source" \/ text.tokens > 0

\* "\n\n".join(chunks_text): the separator is one token of the encoding
RECURSIVE Join(_)
Join(texts) ==
    IF Len(texts) = 1 THEN texts[1]
    ELSE LET rest == Join(Tail(texts))
         IN  [kind |-> "source",
              parts |-> texts[1].parts \o rest.parts,
              tokens |-> texts[1].tokens + 1 + rest.tokens]

\* count_tokens of a source text
TokenLength(text) == text.tokens

\* mutant: the last, shorter window left out
TokenWindows_full_only(total_tokens, chunk_size) ==
    LET starts == LoopRange(total_tokens, chunk_size)
        full == SelectSeq(starts, LAMBDA i : i + chunk_size <= total_tokens)
    IN  [k \in 1 .. Len(full) |->
            SliceBounds(full[k], full[k] + chunk_size, total_tokens)]

\* split_into_token_chunks on a source text of total_tokens tokens:
\* the windows tokens[i:i + chunk_size] for i in range(0, total_tokens, chunk_size)
TokenWindows(total_tokens, chunk_size) ==
    LET starts == LoopRange(total_tokens, chunk_size)
    IN  [k \in 1 .. Len(starts) |->
            SliceBounds(starts[k], starts[k] + chunk_size, total_tokens)]

split_into_token_chunks(text, chunk_size) ==
    LET windows == TokenWindows(TokenLength(text), chunk_size)
    IN  [k \in 1 .. Len(windows) |-> ChunkText(text, windows[k])]

\* mutant: the comparison made non-strict
should_use_summarization_ge(total_tokens) ==
    total_tokens >= MAX_TOKENS_BEFORE_SUMMARIZATION

\* should_use_summarization(total_tokens)
should_use_summarization(total_tokens) ==
    total_tokens > MAX_TOKENS_BEFORE_SUMMARIZATION

(***************************************************************************)
(* The collection.  A point is [id, vector, payload]; a payload is a       *)
(* function from the keys it has to their values.  The collection holds    *)
(* any selection of the fragments below when the requests arrive.          *)
(***************************************************************************)
NoVector == [kind |-> "embedding", of |-> <<>>]

SeedPoints ==
    << [id |-> "s1", vector |-> NoVector,
        payload |-> [file_id |-> "f1", case_id |-> "c1", content_type |-> "text",
                     data_source |-> "audio",
                     page_content |-> SourceText("s1", 59999)]],
       [id |-> "s2", vector |-> NoVector,
        payload |-> [file_id |-> "f1", case_id |-> "c1",
                     data_source |-> "audio",
                     page_content |-> SourceText("s2", 60000)]],
       [id |-> "s3", vector |-> NoVector,
        payload |-> [file_id |-> "f1", case_id |-> "c1", content_type |-> "text",
                     data_source |-> "audio", page |-> 3,
                     page_content |-> SourceText("s3", 60000)]],
       [id |-> "s4", vector |-> NoVector,
        payload |-> [file_id |-> "f1", case_id |-> "c1", content_type |-> "text",
                     data_source |-> "video",
                     page_content |-> EmptyText]],
       [id |-> "s5", vector |-> NoVector,
        payload |-> [file_id |-> "f2", case_id |-> "c1", content_type |-> "text",
                     data_source |-> "video", case_type |-> <<"T">>,
                     page_content |-> SourceText("s5", 120001)]],
       [id |-> "s6", vector |-> NoVector,
        payload |-> [file_id |-> "f2", case_id |-> "c1", content_type |-> "insights",
                     data_source |-> "audio", case_type |-> <<"T">>,
                     page_content |-> GeneratedText("s6", 0)]] >>

RECURSIVE Selection(_, _)
Selection(seq, keep) ==
    IF seq = <<>> THEN <<>>
    ELSE IF Len(seq) \in keep
         THEN Append(Selection(SubSeq(seq, 1, Len(seq) - 1), keep), seq[Len(seq)])
         ELSE Selection(SubSeq(seq, 1, Len(seq) - 1), keep)

InitialStores == {Selection(SeedPoints, keep) : keep \in SUBSET (1 .. Len(SeedPoints))}

(***************************************************************************)
(* get_points_by_file_id: the filter, then the scroll loop.                *)
(***************************************************************************)
\* FieldCondition(key, MatchValue(value)): the payload has the key with this value
FieldMatches(payload, key, value) == key \in DOMAIN payload /\ payload[key] = value

\* mutant: the file_id condition left out
ScrollFilter_any_file(file_id, content_type, case_type, data_source) ==
    [file_id |-> None,
     content_type |-> content_type, case_type |-> case_type, data_source |-> data_source]

\* the conditions the call adds: file_id always, the others when truthy
ScrollFilter(file_id, content_type, case_type, data_source) ==
    [file_id |-> Some(file_id),
     content_type |-> IF content_type # None /\ content_type[1] # ""
                      THEN content_type ELSE None,
     case_type |-> IF case_type # None /\ case_type[1] # <<>>
                   THEN case_type ELSE None,
     data_source |-> IF data_source # None /\ data_source[1] # ""
                     THEN data_source ELSE None]

\* Filter(must = filter_conditions)
PassesFilter(point, filter) ==
    \A key \in DOMAIN filter :
        filter[key] # None => FieldMatches(point.payload, key, filter[key][1])

\* mutant: the next page begins at the last point of this one
Scroll_repeats(matching, offset, limit) ==
    LET from == IF offset = None THEN 1 ELSE offset[1]
        upto == Min(from + limit - 1, Len(matching))
    IN  [points_batch |-> SubSeq(matching, from, upto),
         next_offset |-> IF upto < Len(matching) THEN Some(upto) ELSE None]

\* qdrant_client.scroll: up to limit matching points from position offset on,
\* and the position of the next one, or None after the last
Scroll(matching, offset, limit) ==
    LET from == IF offset = None THEN 1 ELSE offset[1]
        upto == Min(from + limit - 1, Len(matching))
    IN  [points_batch |-> SubSeq(matching, from, upto),
         next_offset |-> IF upto < Len(matching) THEN Some(upto + 1) ELSE None]

\* if next_offset is None or len(points_batch) < limit: break
LastPage(page, limit) == page.next_offset = None \/ Len(page.points_batch) < limit

RECURSIVE ScrollLoop(_, _, _)
ScrollLoop(matching, points, offset) ==
    LET page == Scroll(matching, offset, SCROLL_LIMIT)
        extended == points \o page.points_batch
    IN  IF LastPage(page, SCROLL_LIMIT)
        THEN extended
        ELSE ScrollLoop(matching, extended, page.next_offset)

get_points_by_file_id(collection, file_id, content_type, case_type, data_source) ==
    LET filter == ScrollFilter(file_id, content_type, case_type, data_source)
        matching == SelectSeq(collection, LAMBDA point : PassesFilter(point, filter))
    IN  ScrollLoop(matching, <<>>, None)

\* [p for p in chunks_points if p.payload.get("content_type") != "insights"]
NotInsights(points) ==
    SelectSeq(points, LAMBDA p : ~FieldMatches(p.payload, "content_type", "insights"))

\* payload.get("page_content", "")
PageContent(point) ==
    IF "page_content" \in DOMAIN point.payload THEN point.payload["page_content"]
    ELSE EmptyText

(***************************************************************************)
(* get_points_by_file_id, one scroll request a step.                       *)
(***************************************************************************)
PagingIdle ==
    [pc |-> "idle", filter |-> ScrollFilter("f1", None, None, None),
     points |-> <<>>, offset |-> None, pages |-> 0]

PagingCall(file_id, content_type, case_type, data_source) ==
    [pc |-> "loop", filter |-> ScrollFilter(file_id, content_type, case_type, data_source),
     points |-> <<>>, offset |-> None, pages |-> 0]

\* the points of the collection that pass the filter of the call, in scroll order
Matching(collection, filter) ==
    SelectSeq(collection, LAMBDA point : PassesFilter(point, filter))

ScrollMore ==
    /\ paging.pc = "loop"
    /\ LET page == Scroll(Matching(store, paging.filter), paging.offset, SCROLL_LIMIT)
       IN  /\ ~LastPage(page, SCROLL_LIMIT)
           /\ paging' = [paging EXCEPT !.points = @ \o page.points_batch,
                                       !.offset = page.next_offset,
                                       !.pages = @ + 1]
    /\ UNCHANGED <<split, store, request, pc, frame, gateway, scrolls, response>>

ScrollLast ==
    /\ paging.pc = "loop"
    /\ LET page == Scroll(Matching(store, paging.filter), paging.offset, SCROLL_LIMIT)
       IN  /\ LastPage(page, SCROLL_LIMIT)
           /\ paging' = [paging EXCEPT !.pc = "returned",
                                       !.points = @ \o page.points_batch,
                                       !.pages = @ + 1]
    /\ UNCHANGED <<split, store, request, pc, frame, gateway, scrolls, response>>

(***************************************************************************)
(* store_insights_in_qdrant: the payload, then the upsert.                 *)
(***************************************************************************)
ReservedKeys == {"page_content", "file_id", "case_id", "content_type"}

InsightsPayload(insights, file_id, case_id, sample_metadata, case_type, data_source) ==
    LET base == [page_content |-> insights, file_id |-> file_id, case_id |-> case_id,
                 content_type |-> "insights", case_type |-> case_type,
                 data_source |-> data_source]
        copied == DOMAIN sample_metadata \ ReservedKeys
    IN  [key \in DOMAIN base \cup copied |->
            IF key \in copied THEN sample_metadata[key] ELSE base[key]]

\* mutant: the write replaces the insights stored under the same key
Upsert_replaces_key(collection, point, at) ==
    LET same(p) == /\ FieldMatches(p.payload, "content_type", "insights")
                   /\ FieldMatches(p.payload, "file_id", point.payload["file_id"])
                   /\ FieldMatches(p.payload, "case_type", point.payload["case_type"])
                   /\ FieldMatches(p.payload, "data_source", point.payload["data_source"])
    IN  Append(SelectSeq(collection, LAMBDA p : ~same(p)), point)

\* the new point's id is a fresh uuid4, so it may come anywhere in scroll order
Upsert(collection, point, at) ==
    SubSeq(collection, 1, at) \o <<point>> \o SubSeq(collection, at + 1, Len(collection))

(***************************************************************************)
(* Gateway calls (app/services/llm_service.py).  Each is recorded with the *)
(* prompt it sends; its answer is the text named after the call.           *)
(***************************************************************************)
\* summarize_chunk(chunk, idx)
SummarizeCall(chunk) ==
    [fn |-> "summarize_chunk",
     prompt |-> [template |-> "SUMMARIZATION_PROMPT", text |-> chunk],
     max_tokens |-> None]

\* mutant: the summaries listed latest first
CombinedSummaries_reversed(chunk_summaries) ==
    [k \in 1 .. Len(chunk_summaries) |->
        [label |-> k, summary |-> chunk_summaries[Len(chunk_summaries) + 1 - k]]]

\* "\n\n".join(f"Summary {i+1}:\n{summary}" for i, summary in enumerate(chunk_summaries))
CombinedSummaries(chunk_summaries) ==
    [k \in 1 .. Len(chunk_summaries) |-> [label |-> k, summary |-> chunk_summaries[k]]]

\* create_mega_summary(chunk_summaries, target_tokens)
MegaSummaryCall(chunk_summaries, target_tokens) ==
    [fn |-> "create_mega_summary",
     prompt |-> [template |-> "MEGA_SUMMARY_PROMPT", target_tokens |-> target_tokens,
                 summaries |-> CombinedSummaries(chunk_summaries)],
     max_tokens |-> Some(target_tokens + MEGA_SUMMARY_HEADROOM)]

\* generate_insights_from_text(text, case_type, data_source, max_tokens)
InsightsCall(text, case_type, data_source, max_tokens) ==
    [fn |-> "generate_insights_from_text",
     prompt |-> [template |-> "PROMPT_TEMPLATE", case_type |-> case_type,
                 data_source |-> data_source, text |-> text],
     max_tokens |-> Some(max_tokens)]

\* generate_dense_embedding(text, case_id, file_id)
EmbeddingCall(text, case_id, file_id) ==
    [fn |-> "generate_dense_embedding",
     prompt |-> [text |-> text, case_id |-> case_id, file_id |-> file_id],
     max_tokens |-> None]

Sent(call, ok) ==
    [fn |-> call.fn, prompt |-> call.prompt, max_tokens |-> call.max_tokens, ok |-> ok]

LlmFunctions == {"summarize_chunk", "create_mega_summary", "generate_insights_from_text"}

(***************************************************************************)
(* Responses.                                                              *)
(***************************************************************************)
NoResponse == [status |-> 0]

\* raise HTTPException(status_code, detail)
HTTPException(status_code, detail) == [status |-> status_code, detail |-> detail]

\* InsightsResponse(...) with the defaults of the schema for the fields left out
InsightsResponse(req, insights, source, chunk_count, total_tokens, used_summarization, num_summary_chunks) ==
    [status |-> 200,
     case_id |-> req.case_id, file_id |-> req.file_id,
     case_type |-> req.case_type, data_source |-> req.data_source,
     insights |-> insights, source |-> source,
     chunk_count |-> chunk_count, total_tokens |-> total_tokens,
     used_summarization |-> used_summarization,
     num_summary_chunks |-> num_summary_chunks]

ExistingResponse(req, insights) ==
    InsightsResponse(req, insights, "existing", None, None, FALSE, None)

(***************************************************************************)
(* The handler generate_insights, one step per store read, per gateway     *)
(* call and per stage between them.                                        *)
(***************************************************************************)
NewFrame ==
    [existing_insights |-> <<>>, chunks_points |-> <<>>, chunks_text |-> <<>>,
     concatenated_text |-> None, total_tokens |-> None,
     used_summarization |-> FALSE, num_summary_chunks |-> None,
     token_chunks |-> <<>>, chunk_summaries |-> <<>>, mega_summary |-> None,
     insights_text |-> None, dense_embedding |-> None]

Init ==
    /\ split = SplitIdle
    /\ paging = PagingIdle
    /\ store \in InitialStores
    /\ request \in [Requests -> InsightsRequest]
    /\ pc = [r \in Requests |-> "validate"]
    /\ frame = [r \in Requests |-> NewFrame]
    /\ gateway = [r \in Requests |-> <<>>]
    /\ scrolls = [r \in Requests |-> <<>>]
    /\ response = [r \in Requests |-> NoResponse]

\* the request ends with this response
Return(r, resp) ==
    /\ pc' = [pc EXCEPT ![r] = "done"]
    /\ response' = [response EXCEPT ![r] = resp]

\* mutant: the whitespace test left out
InvalidCaseType_no_strip(case_type) == case_type = <<>>

\* routes.py 43-51
InvalidCaseType(case_type) == case_type = <<>> \/ strip(case_type) = <<>>
InvalidDataSource(data_source) == data_source \notin DataSource

RejectInput(r) ==
    /\ pc[r] = "validate"
    /\ \/ /\ InvalidCaseType(request[r].case_type)
          /\ Return(r, HTTPException(400, "case_type cannot be empty"))
       \/ /\ ~InvalidCaseType(request[r].case_type)
          /\ InvalidDataSource(request[r].data_source)
          /\ Return(r, HTTPException(400, "Invalid data_source"))
    /\ UNCHANGED <<split, paging, store, request, frame, gateway, scrolls>>

AcceptInput(r) ==
    /\ pc[r] = "validate"
    /\ ~InvalidCaseType(request[r].case_type)
    /\ ~InvalidDataSource(request[r].data_source)
    /\ pc' = [pc EXCEPT ![r] = "check_existing"]
    /\ UNCHANGED <<split, paging, store, request, frame, gateway, scrolls, response>>

\* routes.py 53-73
ExistingFilter(req) ==
    ScrollFilter(req.file_id, Some("insights"), Some(req.case_type), Some(req.data_source))

\* mutant: the content type of the check misspelt
ExistingInsights_typo(collection, req) ==
    get_points_by_file_id(collection, req.file_id,
                          Some("insight"), Some(req.case_type), Some(req.data_source))

ExistingInsights(collection, req) ==
    get_points_by_file_id(collection, req.file_id,
                          Some("insights"), Some(req.case_type), Some(req.data_source))

\* mutant: the insights found are written back before they are returned
ReturnExisting_stores(r) ==
    /\ pc[r] = "check_existing"
    /\ LET existing_insights == ExistingInsights(store, request[r])
       IN  /\ existing_insights # <<>>
           /\ frame' = [frame EXCEPT ![r].existing_insights = existing_insights]
           /\ store' = Upsert(store, [existing_insights[1] EXCEPT !.id = r], 0)
           /\ Return(r, ExistingResponse(request[r], PageContent(existing_insights[1])))
    /\ scrolls' = [scrolls EXCEPT ![r] = Append(@, ExistingFilter(request[r]))]
    /\ UNCHANGED <<split, paging, request, gateway>>

ReturnExisting(r) ==
    /\ pc[r] = "check_existing"
    /\ LET existing_insights == ExistingInsights(store, request[r])
       IN  /\ existing_insights # <<>>
           /\ frame' = [frame EXCEPT ![r].existing_insights = existing_insights]
           /\ Return(r, ExistingResponse(request[r], PageContent(existing_insights[1])))
    /\ scrolls' = [scrolls EXCEPT ![r] = Append(@, ExistingFilter(request[r]))]
    /\ UNCHANGED <<split, paging, store, request, gateway>>

NoExisting(r) ==
    /\ pc[r] = "check_existing"
    /\ ExistingInsights(store, request[r]) = <<>>
    /\ pc' = [pc EXCEPT ![r] = "retrieve"]
    /\ scrolls' = [scrolls EXCEPT ![r] = Append(@, ExistingFilter(request[r]))]
    /\ UNCHANGED <<split, paging, store, request, frame, gateway, response>>

\* mutant: the insights points kept among the fragments
StrictChunks_keeps_insights(collection, req) ==
    get_points_by_file_id(collection, req.file_id, None, None, Some(req.data_source))

\* routes.py 75-82
StrictFilter(req) == ScrollFilter(req.file_id, None, None, Some(req.data_source))

StrictChunks(collection, req) ==
    NotInsights(get_points_by_file_id(collection, req.file_id,
                                      None, None, Some(req.data_source)))

FetchChunks(r) ==
    /\ pc[r] = "retrieve"
    /\ LET chunks_points == StrictChunks(store, request[r])
       IN  /\ frame' = [frame EXCEPT ![r].chunks_points = chunks_points]
           /\ pc' = [pc EXCEPT ![r] = IF chunks_points = <<>> THEN "fallback"
                                      ELSE "concatenate"]
    /\ scrolls' = [scrolls EXCEPT ![r] = Append(@, StrictFilter(request[r]))]
    /\ UNCHANGED <<split, paging, store, request, gateway, response>>

\* routes.py 84-90
RelaxedFilter(req) == ScrollFilter(req.file_id, None, None, None)

RelaxedChunks(collection, req) ==
    NotInsights(get_points_by_file_id(collection, req.file_id, None, None, None))

FetchFallback(r) ==
    /\ pc[r] = "fallback"
    /\ LET chunks_points == RelaxedChunks(store, request[r])
       IN  /\ chunks_points # <<>>
           /\ frame' = [frame EXCEPT ![r].chunks_points = chunks_points]
           /\ pc' = [pc EXCEPT ![r] = "concatenate"]
    /\ scrolls' = [scrolls EXCEPT ![r] = Append(@, RelaxedFilter(request[r]))]
    /\ UNCHANGED <<split, paging, store, request, gateway, response>>

\* mutant: the 404 left out, the handler goes on with no fragment
NoChunksFound_goes_on(r) ==
    /\ pc[r] = "fallback"
    /\ RelaxedChunks(store, request[r]) = <<>>
    /\ pc' = [pc EXCEPT ![r] = "concatenate"]
    /\ scrolls' = [scrolls EXCEPT ![r] = Append(@, RelaxedFilter(request[r]))]
    /\ UNCHANGED <<split, paging, store, request, frame, gateway, response>>

NoChunksFound(r) ==
    /\ pc[r] = "fallback"
    /\ RelaxedChunks(store, request[r]) = <<>>
    /\ Return(r, HTTPException(404, "No chunks found"))
    /\ scrolls' = [scrolls EXCEPT ![r] = Append(@, RelaxedFilter(request[r]))]
    /\ UNCHANGED <<split, paging, store, request, frame, gateway>>

\* routes.py 96-97
ChunksText(chunks_points) ==
    LET texts == [k \in 1 .. Len(chunks_points) |-> PageContent(chunks_points[k])]
    IN  SelectSeq(texts, Truthy)

\* routes.py 99-100
NoPageContent(r) ==
    /\ pc[r] = "concatenate"
    /\ ChunksText(frame[r].chunks_points) = <<>>
    /\ Return(r, HTTPException(400, "No valid page_content found"))
    /\ UNCHANGED <<split, paging, store, request, frame, gateway, scrolls>>

\* routes.py 102-109
Concatenate(r) ==
    /\ pc[r] = "concatenate"
    /\ LET chunks_text == ChunksText(frame[r].chunks_points)
       IN  /\ chunks_text # <<>>
           /\ LET concatenated_text == Join(chunks_text)
                  total_tokens == TokenLength(concatenated_text)
                  used_summarization == should_use_summarization(total_tokens)
              IN  /\ frame' = [frame EXCEPT
                                 ![r].chunks_text = chunks_text,
                                 ![r].concatenated_text = Some(concatenated_text),
                                 ![r].total_tokens = Some(total_tokens),
                                 ![r].used_summarization = used_summarization,
                                 ![r].num_summary_chunks = None]
                  /\ pc' = [pc EXCEPT ![r] = IF used_summarization THEN "split"
                                             ELSE "extract"]
    /\ UNCHANGED <<split, paging, store, request, gateway, scrolls, response>>

\* insights_service.py 34-35
SplitText(r) ==
    /\ pc[r] = "split"
    /\ LET token_chunks == split_into_token_chunks(frame[r].concatenated_text[1],
                                                    CHUNK_SIZE_FOR_SUMMARIZATION)
       IN  /\ frame' = [frame EXCEPT ![r].token_chunks = token_chunks]
           /\ pc' = [pc EXCEPT ![r] = IF token_chunks = <<>> THEN "reduce"
                                      ELSE "summarize"]
    /\ UNCHANGED <<split, paging, store, request, gateway, scrolls, response>>

\* the gateway call the handler is suspended on
NextChunk(f) == f.token_chunks[Len(f.chunk_summaries) + 1]

\* mutant: the extraction given the concatenated text on either path
ExtractionInput_always_source(f) == f.concatenated_text[1]

\* insights_service.py 47-52 and 65-70: the text given to the extraction
ExtractionInput(f) ==
    IF f.used_summarization THEN f.mega_summary[1] ELSE f.concatenated_text[1]

PendingCall(r) ==
    LET f == frame[r]
        req == request[r]
    IN  CASE pc[r] = "summarize" -> SummarizeCall(NextChunk(f))
          [] pc[r] = "reduce" -> MegaSummaryCall(f.chunk_summaries, MEGA_SUMMARY_TARGET)
          [] pc[r] = "extract" ->
                InsightsCall(ExtractionInput(f), req.case_type, req.data_source,
                             INSIGHTS_MAX_TOKENS)
          [] pc[r] = "embed" ->
                EmbeddingCall(f.insights_text[1], req.case_id, req.file_id)

\* the text the call now sent returns
Answer(r) == GeneratedText(r, Len(gateway[r]) + 1)

\* insights_service.py 38-41
SummarizeChunk(r) ==
    /\ pc[r] = "summarize"
    /\ gateway' = [gateway EXCEPT ![r] = Append(@, Sent(PendingCall(r), TRUE))]
    /\ LET chunk_summaries == Append(frame[r].chunk_summaries, Answer(r))
       IN  /\ frame' = [frame EXCEPT ![r].chunk_summaries = chunk_summaries]
           /\ pc' = [pc EXCEPT ![r] =
                        IF Len(chunk_summaries) = Len(frame[r].token_chunks)
                        THEN "reduce" ELSE "summarize"]
    /\ UNCHANGED <<split, paging, store, request, scrolls, response>>

\* insights_service.py 44
CreateMegaSummary(r) ==
    /\ pc[r] = "reduce"
    /\ gateway' = [gateway EXCEPT ![r] = Append(@, Sent(PendingCall(r), TRUE))]
    /\ frame' = [frame EXCEPT ![r].mega_summary = Some(Answer(r))]
    /\ pc' = [pc EXCEPT ![r] = "extract"]
    /\ UNCHANGED <<split, paging, store, request, scrolls, response>>

\* mutant: the number of stored fragments reported as the number of chunks
SummaryChunkCount_fragments(f) ==
    IF f.used_summarization THEN Some(Len(f.chunks_text)) ELSE None

\* mutant: the count reported on the direct path too
SummaryChunkCount_always(f) == Some(Len(f.token_chunks))

\* insights_service.py 47-54 and 65-72; routes.py 113 and 120
SummaryChunkCount(f) ==
    IF f.used_summarization THEN Some(Len(f.token_chunks)) ELSE None

GenerateInsightsFromText(r) ==
    /\ pc[r] = "extract"
    /\ gateway' = [gateway EXCEPT ![r] = Append(@, Sent(PendingCall(r), TRUE))]
    /\ frame' = [frame EXCEPT ![r].insights_text = Some(Answer(r)),
                              ![r].num_summary_chunks = SummaryChunkCount(frame[r])]
    /\ pc' = [pc EXCEPT ![r] = "embed"]
    /\ UNCHANGED <<split, paging, store, request, scrolls, response>>

\* mutant: a failed call is sent again instead of ending the request
LlmFails_retries(r) ==
    /\ pc[r] \in {"summarize", "reduce", "extract"}
    /\ gateway' = [gateway EXCEPT ![r] = Append(@, Sent(PendingCall(r), FALSE))]
    /\ UNCHANGED <<split, paging, store, request, pc, frame, scrolls, response>>

\* call_llm raises HTTPException(500) when the request to the LLM fails
LlmFails(r) ==
    /\ pc[r] \in {"summarize", "reduce", "extract"}
    /\ gateway' = [gateway EXCEPT ![r] = Append(@, Sent(PendingCall(r), FALSE))]
    /\ Return(r, HTTPException(500, "LLM error"))
    /\ UNCHANGED <<split, paging, store, request, frame, scrolls>>

\* routes.py 128-132
GenerateDenseEmbedding(r) ==
    /\ pc[r] = "embed"
    /\ gateway' = [gateway EXCEPT ![r] = Append(@, Sent(PendingCall(r), TRUE))]
    /\ frame' = [frame EXCEPT ![r].dense_embedding =
                    Some([kind |-> "embedding", of |-> frame[r].insights_text])]
    /\ pc' = [pc EXCEPT ![r] = "store"]
    /\ UNCHANGED <<split, paging, store, request, scrolls, response>>

\* mutant: the insights are stored although the embedding failed
EmbeddingFails_stores(r) ==
    /\ pc[r] = "embed"
    /\ gateway' = [gateway EXCEPT ![r] = Append(@, Sent(PendingCall(r), FALSE))]
    /\ store' = Upsert(store,
                       [id |-> r, vector |-> NoVector,
                        payload |-> InsightsPayload(frame[r].insights_text[1],
                                        request[r].file_id, request[r].case_id,
                                        frame[r].chunks_points[1].payload,
                                        request[r].case_type, request[r].data_source)],
                       Len(store))
    /\ Return(r, HTTPException(500, "Embedding API error"))
    /\ UNCHANGED <<split, paging, request, frame, scrolls>>

\* generate_dense_embedding raises HTTPException(500)
EmbeddingFails(r) ==
    /\ pc[r] = "embed"
    /\ gateway' = [gateway EXCEPT ![r] = Append(@, Sent(PendingCall(r), FALSE))]
    /\ Return(r, HTTPException(500, "Embedding API error"))
    /\ UNCHANGED <<split, paging, store, request, frame, scrolls>>

\* routes.py 134-159
InsightsPoint(r) ==
    [id |-> r,
     vector |-> frame[r].dense_embedding[1],
     payload |-> InsightsPayload(frame[r].insights_text[1], request[r].file_id,
                                 request[r].case_id,
                                 frame[r].chunks_points[1].payload,
                                 request[r].case_type, request[r].data_source)]

\* mutant: the token count left out of the response
GeneratedResponse_no_total(r) ==
    InsightsResponse(request[r], frame[r].insights_text[1], "generated",
                     Some(Len(frame[r].chunks_text)), None,
                     frame[r].used_summarization, frame[r].num_summary_chunks)

GeneratedResponse(r) ==
    InsightsResponse(request[r], frame[r].insights_text[1], "generated",
                     Some(Len(frame[r].chunks_text)), frame[r].total_tokens,
                     frame[r].used_summarization, frame[r].num_summary_chunks)

StoreInsights(r) ==
    /\ pc[r] = "store"
    /\ \E at \in 0 .. Len(store) : store' = Upsert(store, InsightsPoint(r), at)
    /\ Return(r, GeneratedResponse(r))
    /\ UNCHANGED <<split, paging, request, frame, gateway, scrolls>>

Handle(r) ==
    \/ RejectInput(r)
    \/ AcceptInput(r)
    \/ ReturnExisting(r)
    \/ NoExisting(r)
    \/ FetchChunks(r)
    \/ FetchFallback(r)
    \/ NoChunksFound(r)
    \/ NoPageContent(r)
    \/ Concatenate(r)
    \/ SplitText(r)
    \/ SummarizeChunk(r)
    \/ CreateMegaSummary(r)
    \/ GenerateInsightsFromText(r)
    \/ LlmFails(r)
    \/ GenerateDenseEmbedding(r)
    \/ EmbeddingFails(r)
    \/ StoreInsights(r)

Next == \E r \in Requests : Handle(r)

Spec == Init /\ [][Next]_vars

(***************************************************************************)
(* split_into_token_chunks on its own, over every bounded text and size.   *)
(***************************************************************************)
SplitInit ==
    /\ split \in {SplitCall(text, chunk_size) : text \in Texts, chunk_size \in ChunkSizes}
    /\ paging = PagingIdle
    /\ store = <<>>
    /\ request = [r \in Requests |-> [case_id |-> "c1", file_id |-> "f1",
                                      case_type |-> <<>>, data_source |-> "audio"]]
    /\ pc = [r \in Requests |-> "done"]
    /\ frame = [r \in Requests |-> NewFrame]
    /\ gateway = [r \in Requests |-> <<>>]
    /\ scrolls = [r \in Requests |-> <<>>]
    /\ response = [r \in Requests |-> NoResponse]

(***************************************************************************)
(* get_points_by_file_id on its own, over collections of up to             *)
(* MaxScrollPoints points: two points in three belong to the file asked    *)
(* for, and every other point is an audio one.                             *)
(***************************************************************************)
ScrollPoint(k) ==
    [id |-> k, vector |-> NoVector,
     payload |-> [file_id |-> IF k % 3 = 0 THEN "f2" ELSE "f1",
                  data_source |-> IF k % 2 = 0 THEN "audio" ELSE "video",
                  page_content |-> EmptyText]]

ScrollCollection(n) == [k \in 1 .. n |-> ScrollPoint(k)]

ScrollInit ==
    /\ split = SplitIdle
    /\ \E data_source \in {None, Some("audio")} :
          paging = PagingCall("f1", None, None, data_source)
    /\ store \in {ScrollCollection(n) : n \in 0 .. MaxScrollPoints}
    /\ request = [r \in Requests |-> [case_id |-> "c1", file_id |-> "f1",
                                      case_type |-> <<>>, data_source |-> "audio"]]
    /\ pc = [r \in Requests |-> "done"]
    /\ frame = [r \in Requests |-> NewFrame]
    /\ gateway = [r \in Requests |-> <<>>]
    /\ scrolls = [r \in Requests |-> <<>>]
    /\ response = [r \in Requests |-> NoResponse]

ScrollNext == ScrollMore \/ ScrollLast

SpecScroll == ScrollInit /\ [][ScrollNext]_vars

SplitNext == SplitEncode \/ SplitRaise \/ SplitLoop \/ SplitReturn

SpecSplit == SplitInit /\ [][SplitNext]_vars

(***************************************************************************)
(* What the claims speak of.                                               *)
(***************************************************************************)
\* the request has written a point to the collection
Wrote(r) == \E k \in 1 .. Len(store) : store[k].id = r

Generated(r) == response[r].status = 200 /\ response[r].source = "generated"
Existing(r) == response[r].status = 200 /\ response[r].source = "existing"

\* the calls of the request to the LLM, in order, without the embedding call
LlmCalls(r) == SelectSeq(gateway[r], LAMBDA call : call.fn \in LlmFunctions)

CallsTo(r, fn) == {i \in 1 .. Len(gateway[r]) : gateway[r][i].fn = fn}

\* the request is on, or went through, the summarized path
OnSummarizedPath(r) ==
    \/ pc[r] \in {"split", "summarize", "reduce"}
    \/ CallsTo(r, "summarize_chunk") # {}
    \/ CallsTo(r, "create_mega_summary") # {}

\* the request has counted the tokens of its concatenated text
Counted(r) == frame[r].total_tokens # None

SameKey(a, b) ==
    /\ a.file_id = b.file_id
    /\ a.case_type = b.case_type
    /\ a.data_source = b.data_source

Has(payload, key, value) == key \in DOMAIN payload /\ payload[key] = value

\* the collection holds insights under the key of the request
StoredInsightsFor(req) ==
    \E k \in 1 .. Len(store) :
        /\ Has(store[k].payload, "file_id", req.file_id)
        /\ Has(store[k].payload, "content_type", "insights")
        /\ Has(store[k].payload, "case_type", req.case_type)
        /\ Has(store[k].payload, "data_source", req.data_source)

(***************************************************************************)
(* C1.  A request takes the summarized path, and reports                   *)
(* used_summarization = true, exactly when the token count of its          *)
(* concatenated text is strictly greater than                              *)
(* MAX_TOKENS_BEFORE_SUMMARIZATION: 120000 tokens go the direct way,       *)
(* 120001 the summarized way.                                              *)
(***************************************************************************)
C1_ThresholdDecidesPath ==
    \A r \in Requests :
        Counted(r) =>
            LET total == frame[r].total_tokens[1]
                over == total > 120000
            IN  /\ total = TokenLength(frame[r].concatenated_text[1])
                /\ frame[r].used_summarization = over
                /\ OnSummarizedPath(r) = over
                /\ Generated(r) =>
                      /\ response[r].used_summarization = over
                      /\ response[r].total_tokens = Some(total)

C1_Witness ==
    \E a, b \in Requests :
        /\ Generated(a) /\ response[a].total_tokens = Some(120000)
        /\ ~response[a].used_summarization /\ ~OnSummarizedPath(a)
        /\ Generated(b) /\ response[b].total_tokens = Some(120001)
        /\ response[b].used_summarization /\ OnSummarizedPath(b)

(***************************************************************************)
(* C2.  Whenever the collection holds insights under the key (file_id,     *)
(* case_type, data_source) of a request at its existing-insights check,    *)
(* as it does for the second of two calls in succession once the first     *)
(* has stored its result under that key, the request returns               *)
(* source = "existing" at once, and a request that returned "existing"     *)
(* has called neither the LLM nor the embedding service.                   *)
(***************************************************************************)
C2_ExistingShortCircuit ==
    /\ [](\A r \in Requests : Existing(r) => gateway[r] = <<>>)
    /\ [][\A r \in Requests :
            (/\ pc[r] = "check_existing"
             /\ pc'[r] # "check_existing"
             /\ StoredInsightsFor(request[r]))
            => /\ pc'[r] = "done"
               /\ response'[r].status = 200
               /\ response'[r].source = "existing"
               /\ gateway'[r] = <<>>]_vars

\* the second call found the point the first call stored
C2_Witness ==
    \E a, b \in Requests :
        /\ a # b
        /\ SameKey(request[a], request[b])
        /\ Generated(a)
        /\ Existing(b)
        /\ frame[b].existing_insights[1].id = a
        /\ response[b].insights = response[a].insights
        /\ gateway[b] = <<>>

(***************************************************************************)
(* C3.  A request writes its insights only once every generation step has  *)
(* succeeded: the point of a request is in the collection only when its    *)
(* LLM calls and its embedding call all returned, and a request with a     *)
(* failed summarization, reduction, extraction or embedding call has       *)
(* written nothing and ends with an error.                                 *)
(***************************************************************************)
AllCallsSucceeded(r) == \A i \in 1 .. Len(gateway[r]) : gateway[r][i].ok

C3_WriteAfterAllSteps ==
    \A r \in Requests :
        /\ Wrote(r) =>
              /\ AllCallsSucceeded(r)
              /\ gateway[r] # <<>>
              /\ gateway[r][Len(gateway[r])].fn = "generate_dense_embedding"
              /\ CallsTo(r, "generate_insights_from_text") # {}
              /\ Generated(r)
        /\ ~AllCallsSucceeded(r) =>
              /\ ~Wrote(r)
              /\ pc[r] = "done"
              /\ response[r].status = 500

\* one request failed at the embedding after a whole summarized generation,
\* another failed at a summarization call, and neither has written
C3_Witness ==
    \E a, b \in Requests :
        /\ gateway[a] # <<>> /\ gateway[b] # <<>>
        /\ ~gateway[a][Len(gateway[a])].ok
        /\ gateway[a][Len(gateway[a])].fn = "generate_dense_embedding"
        /\ CallsTo(a, "create_mega_summary") # {}
        /\ ~gateway[b][Len(gateway[b])].ok
        /\ gateway[b][Len(gateway[b])].fn = "summarize_chunk"
        /\ Len(gateway[b]) > 1
        /\ ~Wrote(a) /\ ~Wrote(b)

(***************************************************************************)
(* C4.  For every text and every chunk_size > 0 the token windows the loop *)
(* has cut so far, joined in order, are the leading tokens of the text,    *)
(* each window beginning where the one before ended; on return they are    *)
(* the whole token sequence, and the chunks are the decoded windows.       *)
(***************************************************************************)
RECURSIVE Joined(_)
Joined(seqs) == IF seqs = <<>> THEN <<>> ELSE Head(seqs) \o Joined(Tail(seqs))

SplitRunning == split.pc \in {"loop", "returned"} /\ split.chunk_size > 0

C4_ChunksCoverTokens ==
    SplitRunning =>
        LET tokens == encode(split.text)
            cut == Joined(split.chunk_tokens)
        IN  /\ Len(cut) <= Len(tokens)
            /\ cut = SubSeq(tokens, 1, Len(cut))
            /\ \A k \in 1 .. Len(split.chunk_tokens) : split.chunk_tokens[k] # <<>>
            /\ Len(split.chunks) = Len(split.chunk_tokens)
            /\ \A k \in 1 .. Len(split.chunks) :
                  split.chunks[k] = decode(split.chunk_tokens[k])
            /\ split.pc = "returned" =>
                  /\ cut = tokens
                  /\ Joined(split.chunks) = split.text

\* a text of two kinds of token, cut into several windows, the last one short
C4_Witness ==
    /\ split.pc = "returned"
    /\ split.chunk_size = 2
    /\ Len(split.chunk_tokens) = 2
    /\ Len(split.chunk_tokens[2]) = 1
    /\ \E k \in 1 .. Len(split.tokens) : Len(split.tokens[k]) = 2
    /\ \E k \in 1 .. Len(split.tokens) : Len(split.tokens[k]) = 1

(***************************************************************************)
(* C5.  For every text of totalTokens tokens and every chunk_size > 0, the *)
(* call returns ceil(totalTokens / chunk_size) chunks; every window has at *)
(* most chunk_size tokens and only the last may have fewer; no chunk for   *)
(* the empty text, at least one otherwise.                                 *)
(***************************************************************************)
CeilDiv(n, d) == (n + d - 1) \div d

C5_ChunkCount ==
    (split.pc = "returned" /\ split.chunk_size > 0) =>
        LET total == count_tokens(split.text)
            n == Len(split.chunks)
        IN  /\ n = CeilDiv(total, split.chunk_size)
            /\ Len(split.chunk_tokens) = n
            /\ \A k \in 1 .. n : Len(split.chunk_tokens[k]) <= split.chunk_size
            /\ \A k \in 1 .. n - 1 : Len(split.chunk_tokens[k]) = split.chunk_size
            /\ (split.text = <<>>) = (n = 0)

\* an exact multiple, so that the last window is full too
C5_Witness ==
    /\ split.pc = "returned"
    /\ split.chunk_size = 2
    /\ count_tokens(split.text) = 4
    /\ Len(split.chunks) = 2

(***************************************************************************)
(* C6.  On the summarized path the token chunks are the successive windows *)
(* of the concatenated text, the i-th chunk summary is the answer to the   *)
(* summarization call that was sent the i-th chunk, and the reduction      *)
(* prompt lists these summaries labelled 1 .. N in chunk order.            *)
(***************************************************************************)
\* the answer to the successful summarization call that was sent this chunk
IsSummaryOf(r, summary, chunk) ==
    \E j \in CallsTo(r, "summarize_chunk") :
        /\ gateway[r][j].ok
        /\ gateway[r][j].prompt.text = chunk
        /\ summary = GeneratedText(r, j)

C6_OrderPreserved ==
    \A r \in Requests :
        LET f == frame[r]
            n == Len(f.token_chunks)
        IN  /\ \A k \in 1 .. n :
                  /\ f.token_chunks[k].parts = f.concatenated_text[1].parts
                  /\ f.token_chunks[k].lo = (k - 1) * 50000
                  /\ f.token_chunks[k].lo < f.token_chunks[k].hi
                  /\ k < n => f.token_chunks[k].hi = f.token_chunks[k + 1].lo
            /\ Len(f.chunk_summaries) <= n
            /\ \A k \in 1 .. Len(f.chunk_summaries) :
                  IsSummaryOf(r, f.chunk_summaries[k], f.token_chunks[k])
            /\ \A j \in CallsTo(r, "create_mega_summary") :
                  LET listed == gateway[r][j].prompt.summaries
                  IN  /\ Len(listed) = n
                      /\ \A k \in 1 .. n :
                            /\ listed[k].label = k
                            /\ IsSummaryOf(r, listed[k].summary, f.token_chunks[k])

\* a reduction over four chunks has been sent
C6_Witness ==
    \E r \in Requests :
        /\ CallsTo(r, "create_mega_summary") # {}
        /\ Len(frame[r].token_chunks) = 4
        /\ Len(frame[r].chunk_summaries) = 4

(***************************************************************************)
(* C7.  The LLM calls of a successful summarized run over N chunks are N   *)
(* summarization calls, then one reduction call, then one extraction call, *)
(* and the run reports num_summary_chunks = N; the LLM calls of a          *)
(* successful direct run are one extraction call.                          *)
(***************************************************************************)
C7_CallSequence ==
    \A r \in Requests :
        Generated(r) =>
            LET calls == LlmCalls(r)
                n == Len(frame[r].token_chunks)
            IN  /\ \A i \in 1 .. Len(calls) : calls[i].ok
                /\ IF response[r].used_summarization
                   THEN /\ n >= 1
                        /\ Len(calls) = n + 2
                        /\ \A i \in 1 .. n : calls[i].fn = "summarize_chunk"
                        /\ calls[n + 1].fn = "create_mega_summary"
                        /\ calls[n + 2].fn = "generate_insights_from_text"
                        /\ response[r].num_summary_chunks = Some(n)
                   ELSE /\ Len(calls) = 1
                        /\ calls[1].fn = "generate_insights_from_text"

\* a summarized run over three chunks beside a direct run
C7_Witness ==
    \E a, b \in Requests :
        /\ Generated(a) /\ response[a].used_summarization
        /\ response[a].num_summary_chunks = Some(3)
        /\ Len(LlmCalls(a)) = 5
        /\ Generated(b) /\ ~response[b].used_summarization
        /\ Len(LlmCalls(b)) = 1

(***************************************************************************)
(* C8.  In every returned response used_summarization = true comes with a  *)
(* num_summary_chunks >= 1 and used_summarization = false with none.       *)
(***************************************************************************)
C8_ChunkCountIffSummarized ==
    \A r \in Requests :
        response[r].status = 200 =>
            IF response[r].used_summarization
            THEN /\ response[r].num_summary_chunks # None
                 /\ response[r].num_summary_chunks[1] >= 1
            ELSE response[r].num_summary_chunks = None

\* a summarized response beside an existing one
C8_Witness ==
    \E a, b \in Requests :
        /\ Generated(a) /\ response[a].used_summarization
        /\ response[a].num_summary_chunks = Some(4)
        /\ Existing(b) /\ ~response[b].used_summarization
        /\ response[b].num_summary_chunks = None

(***************************************************************************)
(* C9.  A request that passed validation and found no insights, for a file *)
(* that has no content fragment in the collection (so that the strict and  *)
(* the relaxed fetch both come back empty), ends with 404 after its three  *)
(* reads, without any gateway call and without a write; and 404 is         *)
(* returned for such files only.                                           *)
(***************************************************************************)
Blank(case_type) == \A i \in 1 .. Len(case_type) : case_type[i] = " "

Recognized(data_source) ==
    data_source \in {"audio", "video", "image", "ufed_extraction", "others"}

ValidInput(req) == ~Blank(req.case_type) /\ Recognized(req.data_source)

\* the collection only ever gains insights, so this does not change during a run
NoContentFragments(file_id) ==
    \A k \in 1 .. Len(store) :
        Has(store[k].payload, "file_id", file_id)
            => Has(store[k].payload, "content_type", "insights")

C9_NotFoundBeforeModelCalls ==
    \A r \in Requests :
        /\ (ValidInput(request[r]) /\ NoContentFragments(request[r].file_id)) =>
              /\ gateway[r] = <<>>
              /\ ~Wrote(r)
              /\ (pc[r] = "done" /\ ~Existing(r)) =>
                    /\ response[r].status = 404
                    /\ Len(scrolls[r]) = 3
        /\ response[r].status = 404 =>
              /\ NoContentFragments(request[r].file_id)
              /\ gateway[r] = <<>>
              /\ ~Wrote(r)

\* the file holds an insights point under another key and nothing else
C9_Witness ==
    \E r \in Requests :
        /\ response[r].status = 404
        /\ Len(scrolls[r]) = 3
        /\ \E k \in 1 .. Len(store) : Has(store[k].payload, "file_id", request[r].file_id)

(***************************************************************************)
(* C10.  A request whose case_type is empty or all whitespace, or whose    *)
(* data_source is not a recognized one, never reads the collection, calls  *)
(* no gateway, writes nothing, and ends with 400.                          *)
(***************************************************************************)
C10_InvalidInputRejectedFirst ==
    \A r \in Requests :
        ~ValidInput(request[r]) =>
            /\ scrolls[r] = <<>>
            /\ gateway[r] = <<>>
            /\ ~Wrote(r)
            /\ frame[r] = NewFrame
            /\ pc[r] \in {"validate", "done"}
            /\ pc[r] = "done" => response[r].status = 400

\* a whitespace-only case_type and an unrecognized data_source, both rejected
C10_Witness ==
    \E a, b \in Requests :
        /\ request[a].case_type = <<" ">> /\ request[a].data_source = "audio"
        /\ response[a].status = 400
        /\ request[b].case_type = <<" ", "G">> /\ request[b].data_source = "pdf"
        /\ response[b].status = 400

(***************************************************************************)
(* C11.  No gateway call is retried: a request sends no call twice, a      *)
(* failed call is the last call of its request and ends it with a 500      *)
(* error, and an error response holds a status and a detail and no         *)
(* insights.                                                               *)
(***************************************************************************)
C11_NoRetry ==
    \A r \in Requests :
        LET sent == gateway[r]
        IN  /\ \A i, j \in 1 .. Len(sent) :
                  (i < j /\ sent[i].fn = sent[j].fn) => sent[i].prompt # sent[j].prompt
            /\ \A i \in 1 .. Len(sent) :
                  ~sent[i].ok => /\ i = Len(sent)
                                 /\ pc[r] = "done"
                                 /\ response[r].status = 500
            /\ response[r].status \notin {0, 200} =>
                  DOMAIN response[r] = {"status", "detail"}
            /\ response[r].status = 200 => AllCallsSucceeded(r)

\* the third summarization call of a request failed and was its last call
C11_Witness ==
    \E r \in Requests :
        /\ Len(gateway[r]) = 3
        /\ gateway[r][3].fn = "summarize_chunk"
        /\ ~gateway[r][3].ok
        /\ response[r].status = 500

(***************************************************************************)
(* C12 (as amended).  A result with source = "generated" carries           *)
(* used_summarization, the number of fragments with text and the token     *)
(* count of the concatenated text; a result with source = "existing"       *)
(* carries the defaults of the schema: no chunk_count, no total_tokens,    *)
(* used_summarization = false.                                             *)
(***************************************************************************)
C12_CountsOnGeneratedOnly ==
    \A r \in Requests :
        /\ Generated(r) =>
              /\ response[r].chunk_count = Some(Len(frame[r].chunks_text))
              /\ response[r].chunk_count[1] >= 1
              /\ response[r].total_tokens = frame[r].total_tokens
              /\ response[r].total_tokens # None
              /\ response[r].used_summarization = (response[r].total_tokens[1] > 120000)
        /\ Existing(r) =>
              /\ response[r].chunk_count = None
              /\ response[r].total_tokens = None
              /\ ~response[r].used_summarization

\* an existing result that hands back insights a summarized run has stored
C12_Witness ==
    \E a, b \in Requests :
        /\ Generated(a) /\ response[a].used_summarization
        /\ response[a].chunk_count = Some(2)
        /\ Existing(b) /\ response[b].insights = response[a].insights
        /\ response[b].chunk_count = None

\* C12 as claimed: every successful result carries the chunk and token counts
C12_Original ==
    \A r \in Requests :
        response[r].status = 200 =>
            /\ response[r].chunk_count # None
            /\ response[r].total_tokens # None

(***************************************************************************)
(* C13 (as claimed).  The payload of every point a request has stored      *)
(* carries the generated text, the file_id and case_id of the request,     *)
(* content_type = "insights", and the case_type and data_source of the     *)
(* request, whatever the sample fragment's metadata holds.                 *)
(***************************************************************************)
C13_PayloadCarriesRequestKey ==
    \A k \in 1 .. Len(store) :
        store[k].id \in Requests =>
            LET req == request[store[k].id]
                payload == store[k].payload
            IN  /\ Has(payload, "page_content", frame[store[k].id].insights_text[1])
                /\ Has(payload, "file_id", req.file_id)
                /\ Has(payload, "case_id", req.case_id)
                /\ Has(payload, "content_type", "insights")
                /\ Has(payload, "case_type", req.case_type)
                /\ Has(payload, "data_source", req.data_source)

(***************************************************************************)
(* C14 (as claimed).  A call of split_into_token_chunks with               *)
(* chunk_size <= 0 never returns a list of chunks.                         *)
(***************************************************************************)
C14_RejectsNonPositiveSize ==
    split.chunk_size <= 0 => split.pc # "returned"

(***************************************************************************)
(* C15.  The write is not conditional on the key: every request that       *)
(* returned source = "generated" has its own point in the collection, so   *)
(* two requests for one key that both passed the existing-insights check   *)
(* leave two insight points under that key.                                *)
(***************************************************************************)
PointsOf(r) == {k \in 1 .. Len(store) : store[k].id = r}

C15_EveryGeneratedRunKeepsItsPoint ==
    \A r \in Requests :
        Generated(r) =>
            /\ Cardinality(PointsOf(r)) = 1
            /\ \A k \in PointsOf(r) :
                  /\ Has(store[k].payload, "content_type", "insights")
                  /\ Has(store[k].payload, "page_content", response[r].insights)

\* whether the point is an insights point under the key of the request
UnderKey(point, req) ==
    /\ Has(point.payload, "file_id", req.file_id)
    /\ Has(point.payload, "content_type", "insights")
    /\ Has(point.payload, "case_type", req.case_type)
    /\ Has(point.payload, "data_source", req.data_source)

\* two requests with one key both found nothing, both generated, and the
\* collection holds a point of each under that key
C15_Witness ==
    \E a, b \in Requests :
        /\ a # b
        /\ SameKey(request[a], request[b])
        /\ Generated(a) /\ Generated(b)
        /\ \E i \in PointsOf(a), j \in PointsOf(b) :
              /\ i # j
              /\ UnderKey(store[i], request[a])
              /\ UnderKey(store[j], request[a])

(***************************************************************************)
(* C16.  The reads of a request are, in this order: the existing-insights  *)
(* read (file_id, content_type = "insights", case_type, data_source), the  *)
(* read by file_id and data_source, and the read by file_id alone; the     *)
(* third is made only when the collection has no fragment other than       *)
(* insights for the file and data source.  No insights point is among the  *)
(* fragments whose text is concatenated.                                   *)
(***************************************************************************)
IsInsights(point) == Has(point.payload, "content_type", "insights")

\* the collection only ever gains insights, so this does not change during a run
ContentFragments(file_id, data_source) ==
    {k \in 1 .. Len(store) :
        /\ Has(store[k].payload, "file_id", file_id)
        /\ Has(store[k].payload, "data_source", data_source)
        /\ ~IsInsights(store[k])}

ReadOrder(req) ==
    << [file_id |-> Some(req.file_id), content_type |-> Some("insights"),
        case_type |-> Some(req.case_type), data_source |-> Some(req.data_source)],
       [file_id |-> Some(req.file_id), content_type |-> None,
        case_type |-> None, data_source |-> Some(req.data_source)],
       [file_id |-> Some(req.file_id), content_type |-> None,
        case_type |-> None, data_source |-> None] >>

C16_ThreeReadsInOrder ==
    \A r \in Requests :
        LET req == request[r]
            f == frame[r]
        IN  /\ Len(scrolls[r]) <= 3
            /\ scrolls[r] = SubSeq(ReadOrder(req), 1, Len(scrolls[r]))
            /\ Len(scrolls[r]) = 3 => ContentFragments(req.file_id, req.data_source) = {}
            /\ (Len(scrolls[r]) = 2 /\ pc[r] # "fallback") =>
                  ContentFragments(req.file_id, req.data_source) # {}
            /\ \A k \in 1 .. Len(f.chunks_points) : ~IsInsights(f.chunks_points[k])
            /\ f.concatenated_text # None =>
                  /\ f.concatenated_text[1].kind = "source"
                  /\ \A i \in 1 .. Len(f.concatenated_text[1].parts) :
                        \E k \in 1 .. Len(store) :
                            /\ store[k].id = f.concatenated_text[1].parts[i]
                            /\ ~IsInsights(store[k])

\* a request that went to the third read, over a file that also holds insights
C16_Witness ==
    \E r \in Requests :
        /\ Len(scrolls[r]) = 3
        /\ frame[r].concatenated_text # None
        /\ \E k \in 1 .. Len(store) :
              /\ IsInsights(store[k])
              /\ store[k].id \notin Requests
              /\ Has(store[k].payload, "file_id", request[r].file_id)

(***************************************************************************)
(* C17.  A request makes at most one extraction call, a generated run      *)
(* exactly one; on the direct path it is sent the concatenated text, on    *)
(* the summarized path the answer of the reduction call and not the        *)
(* concatenated text.                                                      *)
(***************************************************************************)
C17_ExtractionInput ==
    \A r \in Requests :
        LET extractions == CallsTo(r, "generate_insights_from_text")
            reductions == CallsTo(r, "create_mega_summary")
        IN  /\ Cardinality(extractions) <= 1
            /\ Generated(r) => Cardinality(extractions) = 1
            /\ \A j \in extractions :
                  LET text == gateway[r][j].prompt.text
                  IN  IF frame[r].total_tokens[1] > 120000
                      THEN /\ text.kind = "generated"
                           /\ \E m \in reductions :
                                 /\ m < j
                                 /\ gateway[r][m].ok
                                 /\ text = GeneratedText(r, m)
                      ELSE /\ text.kind = "source"
                           /\ text = frame[r].concatenated_text[1]
                           /\ reductions = {}

\* a summarized run and a direct run have both sent their extraction
C17_Witness ==
    \E a, b \in Requests :
        /\ CallsTo(a, "generate_insights_from_text") # {}
        /\ CallsTo(a, "create_mega_summary") # {}
        /\ CallsTo(b, "generate_insights_from_text") # {}
        /\ CallsTo(b, "create_mega_summary") = {}

(***************************************************************************)
(* C18.  get_points_by_file_id returns the points that pass its filter,    *)
(* each once and in scroll order, whether there are fewer than 100, 100    *)
(* or more; every page but the last adds 100 points and leaves some to     *)
(* read, so the loop ends after ceil(n / 100) pages (one page for n = 0).  *)
(***************************************************************************)
Wanted ==
    SelectSeq(store, LAMBDA p :
        /\ Has(p.payload, "file_id", paging.filter.file_id[1])
        /\ paging.filter.data_source # None =>
              Has(p.payload, "data_source", paging.filter.data_source[1]))

C18_PagingComplete ==
    /\ paging.pc = "loop" =>
          /\ paging.points = SubSeq(Wanted, 1, 100 * paging.pages)
          /\ Len(paging.points) = 100 * paging.pages
          /\ paging.pages > 0 =>
                /\ 100 * paging.pages < Len(Wanted)
                /\ paging.offset = Some(100 * paging.pages + 1)
    /\ paging.pc = "returned" =>
          /\ paging.points = Wanted
          /\ paging.points = get_points_by_file_id(store, paging.filter.file_id[1], None,
                                                   None, paging.filter.data_source)
          /\ paging.pages = IF Wanted = <<>> THEN 1 ELSE CeilDiv(Len(Wanted), 100)

\* exactly two full pages
C18_Witness ==
    /\ paging.pc = "returned"
    /\ Len(paging.points) = 200
    /\ paging.pages = 2
    /\ Len(store) > 200

(***************************************************************************)
(* C19.  What a request reads, computes and writes belongs to its file:    *)
(* its fragments and existing insights have its file_id, its summaries,    *)
(* mega-summary and insights are the answers to its own calls, the point   *)
(* it stores has its file_id, and while the other request is for another   *)
(* file its fragments, text and token count are those the collection       *)
(* gives for its file.                                                     *)
(***************************************************************************)
OwnAnswer(r, text) == text.kind = "generated" /\ text.by[1] = r

C19_RequestsDoNotInterfere ==
    \A r \in Requests :
        LET req == request[r]
            f == frame[r]
        IN  /\ \A k \in 1 .. Len(f.chunks_points) :
                  Has(f.chunks_points[k].payload, "file_id", req.file_id)
            /\ \A k \in 1 .. Len(f.existing_insights) :
                  Has(f.existing_insights[k].payload, "file_id", req.file_id)
            /\ \A k \in 1 .. Len(f.token_chunks) :
                  f.token_chunks[k].parts = f.concatenated_text[1].parts
            /\ \A k \in 1 .. Len(f.chunk_summaries) : OwnAnswer(r, f.chunk_summaries[k])
            /\ f.mega_summary # None => OwnAnswer(r, f.mega_summary[1])
            /\ f.insights_text # None => OwnAnswer(r, f.insights_text[1])
            /\ Generated(r) => response[r].insights = f.insights_text[1]
            /\ \A k \in PointsOf(r) : Has(store[k].payload, "file_id", req.file_id)
            /\ (\A o \in Requests \ {r} : request[o].file_id # req.file_id) =>
                  /\ f.chunks_points # <<>> =>
                        f.chunks_points =
                            IF ContentFragments(req.file_id, req.data_source) # {}
                            THEN StrictChunks(store, req) ELSE RelaxedChunks(store, req)
                  /\ f.concatenated_text # None =>
                        /\ f.concatenated_text[1] = Join(ChunksText(f.chunks_points))
                        /\ f.total_tokens[1] = TokenLength(f.concatenated_text[1])
                  /\ \A k \in 1 .. Len(store) :
                        (store[k].id \in Requests /\ Has(store[k].payload, "file_id", req.file_id))
                            => store[k].id = r

\* two summarized runs on different files, both in the middle of their calls
C19_Witness ==
    \E a, b \in Requests :
        /\ request[a].file_id # request[b].file_id
        /\ pc[a] = "summarize" /\ Len(frame[a].chunk_summaries) = 2
        /\ pc[b] = "reduce" /\ Len(frame[b].chunk_summaries) = 3
        /\ Len(frame[a].token_chunks) = 4

(***************************************************************************)
(* C20 (as claimed).  The point a generated run has stored passes the      *)
(* existing-insights filter of its own request, so that an identical next  *)
(* request finds it.                                                       *)
(***************************************************************************)
C20_StoredPointMatchesOwnCheck ==
    \A r \in Requests :
        Generated(r) => \E k \in PointsOf(r) : UnderKey(store[k], request[r])

(***************************************************************************)
(* C21.  A request answered with source = "existing" has written no point, *)
(* and the step that answers it leaves the collection as it was; the       *)
(* collection changes only in a step that answers a request with           *)
(* source = "generated", so while every answer given is "existing" the     *)
(* collection is the one the requests started with.                        *)
(***************************************************************************)
AnsweredExisting(r) == ~Existing(r) /\ Existing(r)'

AnsweredGenerated(r) == ~Generated(r) /\ Generated(r)'

C21_ExistingLeavesStore ==
    /\ [](\A r \in Requests : Existing(r) => PointsOf(r) = {})
    /\ []((\A r \in Requests : ~Generated(r)) => store \in InitialStores)
    /\ [][/\ \A r \in Requests : AnsweredExisting(r) => store' = store
          /\ store' # store =>
                /\ Len(store') = Len(store) + 1
                /\ \E r \in Requests : AnsweredGenerated(r)]_vars

\* both requests answered from insights that were in the collection before them
C21_Witness ==
    /\ \A r \in Requests : Existing(r)
    /\ \A r \in Requests : frame[r].existing_insights # <<>>
    /\ store \in InitialStores

(***************************************************************************)
(* C22.  A response with used_summarization = true reports                 *)
(* num_summary_chunks >= 3, and num_summary_chunks is total_tokens of the  *)
(* same response divided by 50000 and rounded up; its total_tokens is      *)
(* above 120000.                                                           *)
(***************************************************************************)
C22_SummaryChunksFromTotal ==
    \A r \in Requests :
        (response[r].status = 200 /\ response[r].used_summarization) =>
            /\ response[r].total_tokens # None
            /\ response[r].total_tokens[1] > 120000
            /\ response[r].num_summary_chunks # None
            /\ response[r].num_summary_chunks[1] >= 3
            /\ response[r].num_summary_chunks[1] =
                  CeilDiv(response[r].total_tokens[1], 50000)

\* the least summarized total beside a larger one
C22_Witness ==
    \E a, b \in Requests :
        /\ Generated(a) /\ response[a].used_summarization
        /\ response[a].total_tokens = Some(120001)
        /\ response[a].num_summary_chunks = Some(3)
        /\ Generated(b) /\ response[b].used_summarization
        /\ response[b].total_tokens = Some(180001)
        /\ response[b].num_summary_chunks = Some(4)

====
